---------------------------- MODULE Spec2Model ----------------------------
(***************************************************************************)
(* Model of md-pgp-server: account registration from a self-signed         *)
(* OpenPGP message (src/src/signature.rs, src/src/main.rs) and the         *)
(* document table with its comma-separated shared_with column              *)
(* (src/src/main.rs).  Every `.await` on the pool is one atomic statement  *)
(* of the store; handlers interleave between their statements.             *)
(***************************************************************************)
EXTENDS Integers, Sequences, FiniteSets, TLC

(* ------------------------------ bounds -------------------------------- *)
NumKeys == 2
NumVariants == 2
KeyIdLen == 2
MaxTasks == 2
MaxDocs == 2
MaxShared == 2
NumListIds == 4
MaxListLen == 3

Keys == 1..NumKeys
Variants == 1..NumVariants
Tasks == 1..MaxTasks
DocIds == 1..MaxDocs
Names == {"notes"}

\* SQL NULL in a text column: a value that is no text (text is a sequence of
\* one-character strings).
NULL == <<"NULL">>
NoKey == [k |-> 0, v |-> 0]

(* ------------------------- identities as text ------------------------- *)
HexDigits ==
  <<"0", "1", "2", "3", "4", "5", "6", "7", "8", "9", "a", "b", "c", "d", "e", "f">>

\* The key id of key k: KeyIdLen bytes, a function of the public material only
\* (certificate variants of one key share it).
KeyIdBytes(k) == [i \in 1..KeyIdLen |-> (154 + 17 * k + 16 * i) % 256]

RECURSIVE HexEncode(_)
HexEncode(bytes) ==
  IF bytes = <<>> THEN <<>>
  ELSE <<HexDigits[(Head(bytes) \div 16) + 1], HexDigits[(Head(bytes) % 16) + 1]>>
         \o HexEncode(Tail(bytes))

key_id_to_text(key_id) == HexEncode(key_id)

KeyText(k) == key_id_to_text(KeyIdBytes(k))
IdTexts == {KeyText(k) : k \in Keys}

\* SignedPublicKey::to_bytes: the serialised certificate, variant included.
KeyBlob(key) == <<"cert", key.k, key.v>>

(* ------------------------ the shared_with column ---------------------- *)
\* `shared_with.split(",")` on a non-empty string: the pieces between commas.
RECURSIVE SplitFrom(_, _, _)
SplitFrom(s, i, cur) ==
  IF i > Len(s) THEN <<cur>>
  ELSE IF s[i] = "," THEN <<cur>> \o SplitFrom(s, i + 1, <<>>)
  ELSE SplitFrom(s, i + 1, Append(cur, s[i]))

SplitComma(s) == SplitFrom(s, 1, <<>>)

\* The column read with NULL taken for a text of its own.
ColumnText_Raw(col) == col

\* Row::get::<String> of the column: SQLite hands back NULL as the empty text.
ColumnText(col) == IF col = NULL THEN <<>> ELSE col

\* lines 162-173: the ids parsed out of the column.
DecodeShared(col) ==
  IF Len(ColumnText(col)) > 0 THEN SplitComma(ColumnText(col)) ELSE <<>>

\* lines 179-185: the fold back to one string.
RECURSIVE FoldFrom(_, _, _)
FoldFrom(ids, i, acc) ==
  IF i > Len(ids) THEN acc
  ELSE FoldFrom(ids, i + 1,
                IF Len(acc) = 0 THEN ids[i] ELSE acc \o <<",">> \o ids[i])

\* The fold writing a comma after every id instead of between ids.
RECURSIVE EncodeShared_Trailing(_)
EncodeShared_Trailing(ids) ==
  IF ids = <<>> THEN <<>>
  ELSE Head(ids) \o <<",">> \o EncodeShared_Trailing(Tail(ids))

EncodeShared(ids) == FoldFrom(ids, 1, <<>>)

\* line 176: the new id is pushed with no membership test.
PushShared(ids, id) == Append(ids, id)

(* ------------------------------ messages ------------------------------ *)
\* A message on the wire, by what the OpenPGP parser and verifier see in it:
\*   kind     how Message::from_bytes decodes it
\*   payload  the signed data: a certificate [k, v], or NoKey for other bytes
\*   signer   the key whose secret half made the signature
\*   issuers  the key ids in the signature's issuer subpackets
\*   fps      the keys named by its issuer-fingerprint subpackets
Payloads == {[k |-> k, v |-> v] : k \in Keys, v \in Variants} \cup {NoKey}

SignedMessages ==
  [kind : {"Signed", "SignedOnePass"}, payload : Payloads, signer : Keys,
   issuers : SUBSET Keys, fps : {{}} \cup {{k} : k \in Keys}]

UnsignedMessages ==
  [kind : {"Malformed", "Literal", "OnePassNoSig"}, payload : {NoKey},
   signer : {1}, issuers : {{}}, fps : {{}}]

AllMessages == SignedMessages \cup UnsignedMessages

\* What a standard signer emits: one issuer subpacket, naming the signer.
StandardMessages ==
  UnsignedMessages \cup {m \in SignedMessages : m.issuers = {m.signer} /\ m.fps = {}}

Ok(v) == [ok |-> TRUE, val |-> v]
Err(e) == [ok |-> FALSE, val |-> e]

\* The parser without its second branch: a one-pass signed message is taken
\* for an unsigned one.
parse_message_NoOnePass(m) ==
  IF m.kind = "Malformed" THEN Err("MalformedMessage")
  ELSE IF m.kind = "Signed"
  THEN Ok([signature |-> [signer |-> m.signer, issuers |-> m.issuers,
                          fps |-> m.fps, over |-> m.payload],
           data |-> m.payload])
  ELSE Err("UnsignedMessage")

\* signature.rs:16-34: the signature packet and the signed data, as they are
\* in the message.  A signature is [signer, issuers, fps, over]: who made it,
\* whom it names, and the data it was made over.
SignatureOf(m) ==
  [signer |-> m.signer, issuers |-> m.issuers, fps |-> m.fps, over |-> m.payload]

parse_message(m) ==
  IF m.kind = "Malformed" THEN Err("MalformedMessage")
  ELSE IF m.kind = "Signed"
  THEN Ok([signature |-> SignatureOf(m), data |-> m.payload])
  ELSE IF m.kind = "SignedOnePass"
  THEN Ok([signature |-> SignatureOf(m), data |-> m.payload])
  ELSE Err("UnsignedMessage")

\* signature.rs:36-43
message_keyid(sig) ==
  IF Cardinality(sig.issuers) = 1
  THEN Ok(CHOOSE k \in sig.issuers : TRUE)
  ELSE Err("AmbiguousIssuer")

\* Signature::verify as called at signature.rs:46: the signature must name the
\* key (or name nobody) and must be a signature by that key over the data.
SigMatchesKey(sig, key) ==
  \/ sig.issuers = {} /\ sig.fps = {}
  \/ key.k \in sig.issuers
  \/ key.k \in sig.fps

\* signature.rs:45-48
verify_message(signature, key, data) ==
  IF SigMatchesKey(signature, key) /\ signature.signer = key.k
     /\ signature.over = data
  THEN Ok("verified")
  ELSE Err("SignatureInvalid")

\* main.rs:70-75: the plaintext is parsed as the key and verified as the data.
parse_create_account(m) ==
  IF ~parse_message(m).ok THEN parse_message(m)
  ELSE LET signature == parse_message(m).val.signature
           plaintext == parse_message(m).val.data
       IN IF plaintext = NoKey THEN Err("KeyParseError")
          ELSE IF ~verify_message(signature, plaintext, plaintext).ok
          THEN verify_message(signature, plaintext, plaintext)
          ELSE Ok(plaintext)

(* ------------------------------- state -------------------------------- *)
VARIABLES
  users,      \* table users: uid (text) -> key_blob; uid is the PRIMARY KEY
  documents,  \* table documents: doc_id -> [name, user_id, shared_with]
  tasks,      \* the handlers in flight, one record per task
  probe       \* the values in hand when the pure functions are run on their own

vars == <<users, documents, tasks, probe>>

NoProbe == [stage |-> "none"]

IdleTask ==
  [op |-> "idle", pc |-> "idle", key |-> NoKey, issuer |-> [n |-> "none", k |-> 0],
   doc_id |-> 0, owner_key_id |-> <<>>, user_key_id |-> <<>>,
   shared_with_str |-> <<>>, doc_ids |-> <<>>, how |-> "none", err |-> "none"]

Init ==
  /\ users = <<>>
  /\ documents = <<>>
  /\ tasks = [t \in Tasks |-> IdleTask]
  /\ probe = NoProbe

Returned(task, e) == [task EXCEPT !.pc = "done", !.how = "return", !.err = e]
Panicked(task, e) == [task EXCEPT !.pc = "done", !.how = "panic", !.err = e]

\* What message_keyid says of the message, kept beside the call for reference:
\* n is "none" when there is no signature to ask, else "zero", "many", or "one"
\* with the issuer in k.
IssuerNote(m) ==
  IF ~parse_message(m).ok THEN [n |-> "none", k |-> 0]
  ELSE IF message_keyid(SignatureOf(m)).ok
  THEN [n |-> "one", k |-> message_keyid(SignatureOf(m)).val]
  ELSE IF m.issuers = {} THEN [n |-> "zero", k |-> 0]
  ELSE [n |-> "many", k |-> 0]

(* ---------------------------- registration ---------------------------- *)
\* The handler storing the key as soon as the payload parses as one, before the
\* signature is verified.
HandleCreateAccountParse_StoreFirst(t, m) ==
  /\ tasks[t].op = "idle"
  /\ LET res == parse_create_account(m)
         call == [IdleTask EXCEPT !.op = "register", !.issuer = IssuerNote(m)]
         uid == KeyText(m.payload.k)
     IN /\ tasks' = [tasks EXCEPT ![t] =
                       IF res.ok THEN [call EXCEPT !.pc = "insert", !.key = res.val]
                       ELSE Returned(call, res.val)]
        /\ users' = IF parse_message(m).ok /\ m.payload # NoKey
                       /\ uid \notin DOMAIN users
                    THEN [u \in DOMAIN users \cup {uid} |->
                            IF u = uid THEN KeyBlob(m.payload) ELSE users[u]]
                    ELSE users
  /\ UNCHANGED <<documents, probe>>

\* main.rs:85-93: the body is parsed and checked; a bad one is answered 400.
HandleCreateAccountParse(t, m) ==
  /\ tasks[t].op = "idle"
  /\ LET res == parse_create_account(m)
         call == [IdleTask EXCEPT !.op = "register", !.issuer = IssuerNote(m)]
     IN tasks' = [tasks EXCEPT ![t] =
                    IF res.ok THEN [call EXCEPT !.pc = "insert", !.key = res.val]
                    ELSE Returned(call, res.val)]
  /\ UNCHANGED <<users, documents, probe>>

\* The insert as INSERT OR REPLACE: a second registration overwrites the row.
insert_user_Replace(table, key) ==
  Ok([u \in DOMAIN table \cup {KeyText(key.k)} |->
        IF u = KeyText(key.k) THEN KeyBlob(key) ELSE table[u]])

\* The insert as INSERT OR IGNORE: a second registration is accepted and dropped.
insert_user_Ignore(table, key) ==
  IF KeyText(key.k) \in DOMAIN table THEN Ok(table)
  ELSE Ok([u \in DOMAIN table \cup {KeyText(key.k)} |->
             IF u = KeyText(key.k) THEN KeyBlob(key) ELSE table[u]])

\* main.rs:107-116: the insert, one statement; uid is unique in the table.
insert_user(table, key) ==
  IF KeyText(key.k) \in DOMAIN table THEN Err("UNIQUE constraint failed")
  ELSE Ok([u \in DOMAIN table \cup {KeyText(key.k)} |->
             IF u = KeyText(key.k) THEN KeyBlob(key) ELSE table[u]])

\* main.rs:94-104
HandleCreateAccountInsert(t) ==
  /\ tasks[t].op = "register" /\ tasks[t].pc = "insert"
  /\ LET res == insert_user(users, tasks[t].key)
     IN IF res.ok
        THEN /\ users' = res.val
             /\ tasks' = [tasks EXCEPT ![t] = Returned(@, "none")]
        ELSE /\ users' = users
             /\ tasks' = [tasks EXCEPT ![t] = Returned(@, "DuplicateIdentity")]
  /\ UNCHANGED <<documents, probe>>

(* ------------------------------ documents ----------------------------- *)
\* Uuid::now_v7(): time ordered, so later documents get larger ids.
NextDocId == Cardinality(DOMAIN documents) + 1

\* The insert with the foreign key not enforced: any owner text is stored.
create_document_NoForeignKey(t, owner, name) ==
  /\ tasks[t].op = "idle"
  /\ NextDocId <= MaxDocs
  /\ LET call == [IdleTask EXCEPT !.op = "create", !.owner_key_id = owner]
     IN /\ documents' =
             [d \in DOMAIN documents \cup {NextDocId} |->
                IF d = NextDocId
                THEN [name |-> name, user_id |-> owner, shared_with |-> NULL]
                ELSE documents[d]]
        /\ tasks' = [tasks EXCEPT ![t] =
                       Returned([call EXCEPT !.doc_id = NextDocId], "none")]
  /\ UNCHANGED <<users, probe>>

\* main.rs:118-130: one insert; user_id REFERENCES users(uid), and the insert
\* leaves shared_with unset.  A failed insert is unwrapped.
create_document(t, owner, name) ==
  /\ tasks[t].op = "idle"
  /\ NextDocId <= MaxDocs
  /\ LET call == [IdleTask EXCEPT !.op = "create", !.owner_key_id = owner]
     IN IF owner \in DOMAIN users
        THEN /\ documents' =
                  [d \in DOMAIN documents \cup {NextDocId} |->
                     IF d = NextDocId
                     THEN [name |-> name, user_id |-> owner, shared_with |-> NULL]
                     ELSE documents[d]]
             /\ tasks' = [tasks EXCEPT ![t] =
                            Returned([call EXCEPT !.doc_id = NextDocId], "none")]
        ELSE /\ documents' = documents
             /\ tasks' = [tasks EXCEPT ![t] = Panicked(call, "ForeignKey")]
  /\ UNCHANGED <<users, probe>>

\* Share calls that have not finished, per document.
InFlight(d) ==
  Cardinality({t \in Tasks : tasks[t].op = "share" /\ tasks[t].pc # "done"
                             /\ tasks[t].doc_id = d})

Room(d) ==
  d \in DOMAIN documents =>
    Len(DecodeShared(documents[d].shared_with)) + InFlight(d) < MaxShared

\* The call with the two checks swapped: the grantee is looked up before the
\* owner is compared.
ShareSelectOwner_GranteeFirst(t, doc_id, owner_key_id, user_key_id) ==
  /\ tasks[t].op = "idle"
  /\ Room(doc_id)
  /\ LET call == [IdleTask EXCEPT !.op = "share", !.doc_id = doc_id,
                                  !.owner_key_id = owner_key_id,
                                  !.user_key_id = user_key_id]
     IN tasks' = [tasks EXCEPT ![t] =
                    IF doc_id \notin DOMAIN documents
                    THEN Panicked(call, "UnknownDocument")
                    ELSE IF user_key_id \notin DOMAIN users
                    THEN Panicked(call, "UnknownGrantee")
                    ELSE IF documents[doc_id].user_id # owner_key_id
                    THEN Panicked(call, "NotOwner")
                    ELSE [call EXCEPT !.pc = "select_user"]]
  /\ UNCHANGED <<users, documents, probe>>

\* main.rs:138-148: the call starts with the owner query; no row, or another
\* owner, and the task panics.
ShareSelectOwner(t, doc_id, owner_key_id, user_key_id) ==
  /\ tasks[t].op = "idle"
  /\ Room(doc_id)
  /\ LET call == [IdleTask EXCEPT !.op = "share", !.doc_id = doc_id,
                                  !.owner_key_id = owner_key_id,
                                  !.user_key_id = user_key_id]
     IN tasks' = [tasks EXCEPT ![t] =
                    IF doc_id \notin DOMAIN documents
                    THEN Panicked(call, "UnknownDocument")
                    ELSE IF documents[doc_id].user_id # owner_key_id
                    THEN Panicked(call, "NotOwner")
                    ELSE [call EXCEPT !.pc = "select_user"]]
  /\ UNCHANGED <<users, documents, probe>>

\* The grantee check with the append done first: the id is written to the
\* column, then the missing account is noticed.
ShareSelectUser_WriteFirst(t) ==
  /\ tasks[t].op = "share" /\ tasks[t].pc = "select_user"
  /\ documents' =
       [documents EXCEPT ![tasks[t].doc_id].shared_with =
          EncodeShared(PushShared(DecodeShared(@), tasks[t].user_key_id))]
  /\ tasks' = [tasks EXCEPT ![t] =
                 IF tasks[t].user_key_id \notin DOMAIN users
                 THEN Panicked(@, "UnknownGrantee")
                 ELSE Returned(@, "none")]
  /\ UNCHANGED <<users, probe>>

\* The call without the grantee check.
ShareSelectUser_NoCheck(t) ==
  /\ tasks[t].op = "share" /\ tasks[t].pc = "select_user"
  /\ tasks' = [tasks EXCEPT ![t] = [@ EXCEPT !.pc = "select_shared"]]
  /\ UNCHANGED <<users, documents, probe>>

\* The grantee check swallowing the missing row: the call answers Ok and
\* skips the append.
ShareSelectUser_SilentOk(t) ==
  /\ tasks[t].op = "share" /\ tasks[t].pc = "select_user"
  /\ tasks' = [tasks EXCEPT ![t] =
                 IF tasks[t].user_key_id \notin DOMAIN users
                 THEN Returned(@, "none")
                 ELSE [@ EXCEPT !.pc = "select_shared"]]
  /\ UNCHANGED <<users, documents, probe>>

\* main.rs:149-159: the grantee must have a row in users.
ShareSelectUser(t) ==
  /\ tasks[t].op = "share" /\ tasks[t].pc = "select_user"
  /\ tasks' = [tasks EXCEPT ![t] =
                 IF tasks[t].user_key_id \notin DOMAIN users
                 THEN Panicked(@, "UnknownGrantee")
                 ELSE [@ EXCEPT !.pc = "select_shared"]]
  /\ UNCHANGED <<users, documents, probe>>

\* main.rs:161-185: read the column, split, push, fold.
ShareSelectShared(t) ==
  /\ tasks[t].op = "share" /\ tasks[t].pc = "select_shared"
  /\ LET shared_ids == DecodeShared(documents[tasks[t].doc_id].shared_with)
     IN tasks' = [tasks EXCEPT ![t] =
                    [@ EXCEPT !.pc = "update",
                              !.shared_with_str =
                                 EncodeShared(PushShared(shared_ids,
                                                         tasks[t].user_key_id))]]
  /\ UNCHANGED <<users, documents, probe>>

\* The update without its WHERE clause: every row gets the string.
ShareUpdate_AllRows(t) ==
  /\ tasks[t].op = "share" /\ tasks[t].pc = "update"
  /\ documents' = [d \in DOMAIN documents |->
                     [documents[d] EXCEPT !.shared_with = tasks[t].shared_with_str]]
  /\ tasks' = [tasks EXCEPT ![t] = Returned(@, "none")]
  /\ UNCHANGED <<users, probe>>

\* main.rs:187-193: write the string back.
ShareUpdate(t) ==
  /\ tasks[t].op = "share" /\ tasks[t].pc = "update"
  /\ documents' = [documents EXCEPT ![tasks[t].doc_id].shared_with =
                                        tasks[t].shared_with_str]
  /\ tasks' = [tasks EXCEPT ![t] = Returned(@, "none")]
  /\ UNCHANGED <<users, probe>>

\* The owner query matching a document's grantees as well as its owner.
RECURSIVE SelectDocIds_OrShared(_, _, _)
SelectDocIds_OrShared(table, key_id, d) ==
  IF d > Cardinality(DOMAIN table) THEN <<>>
  ELSE (IF \/ table[d].user_id = key_id
           \/ \E i \in 1..Len(DecodeShared(table[d].shared_with)) :
                DecodeShared(table[d].shared_with)[i] = key_id
        THEN <<d>> ELSE <<>>)
       \o SelectDocIds_OrShared(table, key_id, d + 1)

\* main.rs:198-206: select doc_id from documents where user_id = ?, the rows
\* pushed one by one, from document d on.
RECURSIVE SelectDocIds(_, _, _)
SelectDocIds(table, key_id, d) ==
  IF d > Cardinality(DOMAIN table) THEN <<>>
  ELSE (IF table[d].user_id = key_id THEN <<d>> ELSE <<>>)
       \o SelectDocIds(table, key_id, d + 1)

\* main.rs:196-209
get_user_docs(t, key_id) ==
  /\ tasks[t].op = "idle"
  /\ tasks' = [tasks EXCEPT ![t] =
                 Returned([IdleTask EXCEPT !.op = "list", !.owner_key_id = key_id,
                                           !.doc_ids = SelectDocIds(documents, key_id, 1)],
                          "none")]
  /\ UNCHANGED <<users, documents, probe>>

\* The answer goes out (or the panicked task is dropped) and the slot is free.
Respond(t) ==
  /\ tasks[t].pc = "done"
  /\ tasks' = [tasks EXCEPT ![t] = IdleTask]
  /\ UNCHANGED <<users, documents, probe>>

(* ------------------- the pure functions on their own ------------------ *)
\* Lists of identities with no identity twice, as the column is meant to hold.
ListIds == {KeyText(k) : k \in 1..NumListIds}
DupFreeLists ==
  {l \in UNION {[1..n -> ListIds] : n \in 0..MaxListLen} :
     \A i \in 1..Len(l), j \in 1..Len(l) : l[i] = l[j] => i = j}

CodecInit ==
  /\ users = <<>> /\ documents = <<>>
  /\ tasks = [t \in Tasks |-> IdleTask]
  /\ \E l \in DupFreeLists :
       probe = [stage |-> "list", list |-> l, text |-> <<>>, back |-> <<>>]

\* main.rs:179-185 on the list in hand.
CodecEncode ==
  /\ probe.stage = "list"
  /\ probe' = [probe EXCEPT !.stage = "encoded", !.text = EncodeShared(probe.list)]
  /\ UNCHANGED <<users, documents, tasks>>

\* main.rs:162-173 on the string just written.
CodecDecode ==
  /\ probe.stage = "encoded"
  /\ probe' = [probe EXCEPT !.stage = "decoded", !.back = DecodeShared(probe.text)]
  /\ UNCHANGED <<users, documents, tasks>>

CodecNext == CodecEncode \/ CodecDecode

CodecSpec == CodecInit /\ [][CodecNext]_vars

\* signature.rs:90-93 (the test's signer): a message over the data, signed by
\* key k, the signature naming k as its issuer.
SignMessage(kind, k, fps, data) ==
  [kind |-> kind, payload |-> data, signer |-> k, issuers |-> {k}, fps |-> fps]

RoundTripInit ==
  /\ users = <<>> /\ documents = <<>>
  /\ tasks = [t \in Tasks |-> IdleTask]
  /\ \E k \in Keys, data \in Payloads, kind \in {"Signed", "SignedOnePass"},
        pkey \in Payloads \ {NoKey} :
     \E fps \in {{}, {k}} :
       probe = [stage |-> "signed", k |-> k, data |-> data, pkey |-> pkey,
                message |-> SignMessage(kind, k, fps, data),
                parsed |-> Err("none"), key_id |-> Err("none"),
                verified |-> Err("none")]

\* signature.rs:95
RoundTripParse ==
  /\ probe.stage = "signed"
  /\ probe' = [probe EXCEPT !.stage = IF parse_message(probe.message).ok
                                      THEN "parsed" ELSE "failed",
                            !.parsed = parse_message(probe.message)]
  /\ UNCHANGED <<users, documents, tasks>>

\* signature.rs:96
RoundTripKeyId ==
  /\ probe.stage = "parsed"
  /\ probe' = [probe EXCEPT !.stage = "identified",
                            !.key_id = message_keyid(probe.parsed.val.signature)]
  /\ UNCHANGED <<users, documents, tasks>>

\* signature.rs:99
RoundTripVerify ==
  /\ probe.stage = "identified"
  /\ probe' = [probe EXCEPT !.stage = "verified",
                            !.verified = verify_message(probe.parsed.val.signature,
                                                        probe.pkey,
                                                        probe.parsed.val.data)]
  /\ UNCHANGED <<users, documents, tasks>>

RoundTripNext == RoundTripParse \/ RoundTripKeyId \/ RoundTripVerify

RoundTripSpec == RoundTripInit /\ [][RoundTripNext]_vars

(* --------------------------- specifications --------------------------- *)
Next ==
  \E t \in Tasks :
    \/ \E m \in StandardMessages : HandleCreateAccountParse(t, m)
    \/ HandleCreateAccountInsert(t)
    \/ \E owner \in IdTexts, name \in Names : create_document(t, owner, name)
    \/ \E d \in DocIds, o \in IdTexts, u \in IdTexts : ShareSelectOwner(t, d, o, u)
    \/ ShareSelectUser(t)
    \/ ShareSelectShared(t)
    \/ ShareUpdate(t)
    \/ \E key_id \in IdTexts : get_user_docs(t, key_id)
    \/ Respond(t)

Spec == Init /\ [][Next]_vars

\* Registration alone, over every message the parser can be handed.
RegNext ==
  \E t \in Tasks :
    \/ \E m \in AllMessages : HandleCreateAccountParse(t, m)
    \/ HandleCreateAccountInsert(t)
    \/ Respond(t)

RegSpec == Init /\ [][RegNext]_vars

(* ------------------------------- helpers ------------------------------ *)
Occurrences(ids, id) == Cardinality({i \in 1..Len(ids) : ids[i] = id})
SharedIds(d) == DecodeShared(documents[d].shared_with)
FinishedShare(t) == tasks[t].op = "share" /\ tasks[t].pc = "done"
Succeeded(t) == tasks[t].pc = "done" /\ tasks[t].how = "return" /\ tasks[t].err = "none"
\* The step is task t's, and it is a step of a share call.
ShareStepOf(t) == tasks'[t] # tasks[t] /\ tasks'[t].op = "share"
\* Task t is about to write, and nothing was written since it read the column.
Undisturbed(t) ==
  /\ tasks[t].op = "share" /\ tasks[t].pc = "update"
  /\ InFlight(tasks[t].doc_id) = 1
  /\ tasks[t].shared_with_str =
       EncodeShared(Append(SharedIds(tasks[t].doc_id), tasks[t].user_key_id))

(* ------------------------------- claims ------------------------------- *)
\* C1: when two share calls by the owner, for distinct grantees, have both run
\* on one document (that existed, the grantees registered, when they ran), both
\* have succeeded and the document's shared_with holds each of the two grantees
\* exactly once (no grant is lost).
C1_NoGrantLost ==
  \A t1 \in Tasks, t2 \in Tasks :
    ( /\ t1 # t2 /\ FinishedShare(t1) /\ FinishedShare(t2)
      /\ tasks[t1].doc_id = tasks[t2].doc_id
      /\ tasks[t1].doc_id \in DOMAIN documents
      /\ tasks[t1].user_key_id # tasks[t2].user_key_id
      /\ \A t \in {t1, t2} :
           /\ tasks[t].owner_key_id = documents[tasks[t].doc_id].user_id
           /\ tasks[t].err \notin {"UnknownDocument", "UnknownGrantee"} )
    => \A t \in {t1, t2} :
         /\ Succeeded(t)
         /\ Occurrences(SharedIds(tasks[t].doc_id), tasks[t].user_key_id) = 1

\* C2: a share call that runs alone and whose grantee is already in the
\* document's shared_with writes the list back unchanged (the repeated grant is
\* a no-op).
C2_IdempotentGrant ==
  [][\A t \in Tasks :
       ( /\ Undisturbed(t)
         /\ Occurrences(SharedIds(tasks[t].doc_id), tasks[t].user_key_id) > 0
         /\ tasks'[t].pc = "done" )
       => /\ Succeeded(t)'
          /\ documents' = documents]_vars

\* C3: in every reachable state no identity occurs twice in the shared_with of
\* any document.
C3_NoDuplicates ==
  \A d \in DOMAIN documents :
    \A i \in 1..Len(SharedIds(d)), j \in 1..Len(SharedIds(d)) :
      SharedIds(d)[i] = SharedIds(d)[j] => i = j

\* C4: a share call on an existing document by a requester who is not its owner
\* ends at the owner check with NotOwner, whatever the grantee, registered or
\* not, and changes neither table.
C4_OwnerEnforcement ==
  [][\A t \in Tasks :
       ( /\ tasks[t].op = "idle" /\ tasks'[t].op = "share"
         /\ tasks'[t].doc_id \in DOMAIN documents
         /\ tasks'[t].owner_key_id # documents[tasks'[t].doc_id].user_id )
       => /\ tasks'[t].pc = "done" /\ tasks'[t].err = "NotOwner"
          /\ documents' = documents /\ users' = users]_vars

C4_Witness ==
  \E t1 \in Tasks, t2 \in Tasks :
    /\ FinishedShare(t1) /\ tasks[t1].err = "NotOwner"
    /\ FinishedShare(t2) /\ tasks[t2].err = "NotOwner"
    /\ tasks[t1].user_key_id \in DOMAIN users
    /\ tasks[t2].user_key_id \notin DOMAIN users
    /\ \A t \in {t1, t2} :
         /\ tasks[t].doc_id \in DOMAIN documents
         /\ tasks[t].owner_key_id # documents[tasks[t].doc_id].user_id

\* C5: a share call that fails writes nothing: every step of a share call
\* other than the one that completes it successfully leaves the shared_with of
\* every document (the whole documents table) as it was.
C5_FailedShareWritesNothing ==
  [][\A t \in Tasks :
       (ShareStepOf(t) /\ ~Succeeded(t)') => documents' = documents]_vars

C5_Witness ==
  \E t \in Tasks, d \in DOMAIN documents :
    /\ FinishedShare(t) /\ tasks[t].err = "UnknownGrantee"
    /\ tasks[t].doc_id = d
    /\ Len(SharedIds(d)) > 0

\* C6: every share call ends by returning (Ok or a typed error), never in a
\* panic.
C6_ShareNeverPanics ==
  \A t \in Tasks : FinishedShare(t) => tasks[t].how = "return"

\* C7: accounts are created once and never change: no step removes an account
\* or alters its key material, and an insert for an identity that already has
\* an account is rejected with DuplicateIdentity.
C7_AccountCreatedOnce ==
  [][/\ \A u \in DOMAIN users : u \in DOMAIN users' /\ users'[u] = users[u]
     /\ \A t \in Tasks :
          ( /\ tasks[t].op = "register" /\ tasks[t].pc = "insert"
            /\ tasks'[t].pc = "done"
            /\ KeyText(tasks[t].key.k) \in DOMAIN users )
          => tasks'[t].err = "DuplicateIdentity"]_vars

C7_Witness ==
  \E t \in Tasks :
    /\ tasks[t].op = "register" /\ tasks[t].pc = "done"
    /\ tasks[t].err = "DuplicateIdentity"
    /\ KeyText(tasks[t].key.k) \in DOMAIN users
    /\ users[KeyText(tasks[t].key.k)] # KeyBlob(tasks[t].key)

\* C8: of two valid registrations for one identity in flight together, the
\* insert that reaches the store first succeeds and the other is rejected with
\* DuplicateIdentity: never both succeed, and once either has finished the
\* identity has its account.
RegistrationPastChecks(t) ==
  tasks[t].op = "register" /\ tasks[t].key # NoKey

C8_OneOfTwoWins ==
  /\ [](\A t1 \in Tasks, t2 \in Tasks :
          ( /\ t1 # t2
            /\ RegistrationPastChecks(t1) /\ RegistrationPastChecks(t2)
            /\ tasks[t1].key.k = tasks[t2].key.k
            /\ tasks[t1].pc = "done" )
          => /\ KeyText(tasks[t1].key.k) \in DOMAIN users
             /\ tasks[t1].err \in {"none", "DuplicateIdentity"}
             /\ Succeeded(t1) => ~Succeeded(t2))
  /\ [][\A t \in Tasks :
          ( /\ RegistrationPastChecks(t) /\ tasks[t].pc = "insert"
            /\ tasks'[t].pc = "done" )
          => IF KeyText(tasks[t].key.k) \in DOMAIN users
             THEN tasks'[t].err = "DuplicateIdentity"
             ELSE Succeeded(t)']_vars

C8_Witness ==
  \E t1 \in Tasks, t2 \in Tasks :
    /\ RegistrationPastChecks(t1) /\ RegistrationPastChecks(t2)
    /\ tasks[t1].key.k = tasks[t2].key.k
    /\ tasks[t1].key.v # tasks[t2].key.v
    /\ Succeeded(t1)
    /\ tasks[t2].pc = "done" /\ tasks[t2].err = "DuplicateIdentity"
    /\ users[KeyText(tasks[t1].key.k)] = KeyBlob(tasks[t1].key)

\* C9: a registration whose signature declares no issuer, or more than one, is
\* rejected with AmbiguousIssuer (once its payload has parsed as a key), and so
\* never reaches the insert.
C9_AmbiguousIssuerRejected ==
  \A t \in Tasks :
    ( /\ tasks[t].op = "register"
      /\ tasks[t].issuer.n \in {"zero", "many"}
      /\ tasks[t].err # "KeyParseError" )
    => tasks[t].pc = "done" /\ tasks[t].err = "AmbiguousIssuer"

\* C10: a registration gets as far as the insert only if the signature's sole
\* declared issuer is the key carried in the payload.
C10_IssuerIsPayloadKey ==
  \A t \in Tasks :
    RegistrationPastChecks(t)
    => tasks[t].issuer.n = "one" /\ tasks[t].issuer.k = tasks[t].key.k

\* C11: a registration that fails in validation (malformed or unsigned
\* message, payload that is no key, invalid signature) changes neither table;
\* nor does the validation of one that passes.
ValidationErrors ==
  {"MalformedMessage", "UnsignedMessage", "KeyParseError", "SignatureInvalid"}

C11_ValidationHasNoEffect ==
  [][\A t \in Tasks :
       (tasks[t].op = "idle" /\ tasks'[t].op = "register")
       => /\ users' = users /\ documents' = documents
          /\ tasks'[t].pc = "done" => tasks'[t].err \in ValidationErrors]_vars

C11_Witness ==
  \E t \in Tasks :
    /\ tasks[t].op = "register" /\ tasks[t].pc = "done"
    /\ tasks[t].err = "SignatureInvalid"
    /\ DOMAIN users # {} /\ DOMAIN documents # {}

\* C12: a created document reads back with an empty shared_with list, and the
\* first share on it (by the owner, for a registered grantee, running alone)
\* succeeds and leaves shared_with equal to exactly [grantee].
C12_FirstShareOnFreshDocument ==
  [][/\ \A d \in DOMAIN documents' \ DOMAIN documents :
          DecodeShared(documents'[d].shared_with) = <<>>
     /\ \A t \in Tasks :
          ( /\ Undisturbed(t)
            /\ documents[tasks[t].doc_id].shared_with = NULL
            /\ tasks'[t].pc = "done" )
          => /\ Succeeded(t)'
             /\ DecodeShared(documents'[tasks[t].doc_id].shared_with)
                  = <<tasks[t].user_key_id>>]_vars

C12_Witness ==
  \E t \in Tasks :
    /\ FinishedShare(t) /\ Succeeded(t)
    /\ tasks[t].doc_id \in DOMAIN documents
    /\ SharedIds(tasks[t].doc_id) = <<tasks[t].user_key_id>>
    /\ tasks[t].user_key_id # documents[tasks[t].doc_id].user_id

\* C13: a share by the owner fails with UnknownGrantee, writing nothing, in
\* every state where the grantee has no account; with the account present the
\* call goes on to its write and succeeds, leaving the grantee in shared_with;
\* no share has succeeded for a grantee that is not registered.
C13_ShareOnlyAfterRegistration ==
  /\ [](\A t \in Tasks :
          /\ (FinishedShare(t) /\ Succeeded(t)) => tasks[t].user_key_id \in DOMAIN users
          /\ (tasks[t].op = "share" /\ tasks[t].pc \in {"select_shared", "update"})
               => tasks[t].user_key_id \in DOMAIN users)
  /\ [][\A t \in Tasks :
          /\ ( /\ tasks[t].op = "share" /\ tasks[t].pc = "select_user"
               /\ tasks'[t] # tasks[t] )
             => IF tasks[t].user_key_id \in DOMAIN users
                THEN tasks'[t].pc = "select_shared"
                ELSE /\ tasks'[t].pc = "done" /\ tasks'[t].err = "UnknownGrantee"
                     /\ documents' = documents
          /\ ( /\ tasks[t].op = "share" /\ tasks[t].pc = "update"
               /\ tasks'[t] # tasks[t] )
             => /\ Succeeded(t)'
                /\ Occurrences(DecodeShared(documents'[tasks[t].doc_id].shared_with),
                               tasks[t].user_key_id) > 0]_vars

C13_Witness ==
  \E t1 \in Tasks, t2 \in Tasks :
    /\ FinishedShare(t1) /\ tasks[t1].err = "UnknownGrantee"
    /\ FinishedShare(t2) /\ Succeeded(t2)
    /\ tasks[t1].doc_id = tasks[t2].doc_id
    /\ tasks[t1].user_key_id = tasks[t2].user_key_id
    /\ tasks[t2].user_key_id # tasks[t2].owner_key_id
    /\ SharedIds(tasks[t2].doc_id) = <<tasks[t2].user_key_id>>

\* C17: shared_with is append-only: in every step the old list of every
\* document is a prefix of its new list.
IsPrefix(a, b) == Len(a) <= Len(b) /\ \A i \in 1..Len(a) : a[i] = b[i]

C17_AppendOnly ==
  [][\A d \in DOMAIN documents :
       /\ d \in DOMAIN documents'
       /\ IsPrefix(SharedIds(d), DecodeShared(documents'[d].shared_with))]_vars

\* C18: no step changes the owner, name or id of a document, and a step of a
\* share call changes nothing but the shared_with of the document it names:
\* every other document and the users table stay as they were.
C18_ShareTouchesOnlyItsTarget ==
  [][/\ \A d \in DOMAIN documents :
          /\ d \in DOMAIN documents'
          /\ documents'[d].user_id = documents[d].user_id
          /\ documents'[d].name = documents[d].name
     /\ \A t \in Tasks :
          ShareStepOf(t)
          => /\ users' = users
             /\ DOMAIN documents' = DOMAIN documents
             /\ \A d \in DOMAIN documents :
                  d # tasks'[t].doc_id => documents'[d] = documents[d]]_vars

C18_Witness ==
  \E t \in Tasks, d \in DOMAIN documents :
    /\ FinishedShare(t) /\ Succeeded(t)
    /\ d # tasks[t].doc_id
    /\ documents[d].shared_with = NULL
    /\ SharedIds(tasks[t].doc_id) # <<>>
    /\ documents[d].user_id = documents[tasks[t].doc_id].user_id

\* C19: in every reachable state every identity listed in a document's
\* shared_with has an account.
C19_GranteesAreRegistered ==
  \A d \in DOMAIN documents :
    \A i \in 1..Len(SharedIds(d)) : SharedIds(d)[i] \in DOMAIN users

C19_Witness ==
  \E d \in DOMAIN documents :
    /\ Len(SharedIds(d)) = 2
    /\ SharedIds(d)[1] # SharedIds(d)[2]

\* C20: in every reachable state the owner of every document has an account,
\* and a create for an owner without one stores no document.
C20_OwnersAreRegistered ==
  /\ [](\A d \in DOMAIN documents : documents[d].user_id \in DOMAIN users)
  /\ [][\A t \in Tasks :
          ( /\ tasks[t].op = "idle" /\ tasks'[t].op = "create"
            /\ tasks'[t].owner_key_id \notin DOMAIN users )
          => documents' = documents /\ ~Succeeded(t)']_vars

C20_Witness ==
  \E t \in Tasks :
    /\ tasks[t].op = "create" /\ tasks[t].pc = "done"
    /\ tasks[t].err = "ForeignKey"
    /\ tasks[t].owner_key_id \notin DOMAIN users
    /\ DOMAIN documents # {}

\* C16: listing the documents of an identity returns every document whose
\* owner is that identity, each once, and no other document (none that is only
\* shared with it), and changes neither table.
C16_ListIsExactlyTheOwned ==
  [][\A t \in Tasks :
       (tasks[t].op = "idle" /\ tasks'[t].op = "list")
       => /\ Succeeded(t)'
          /\ users' = users /\ documents' = documents
          /\ \A d \in DOMAIN documents :
               Occurrences(tasks'[t].doc_ids, d) =
                 IF documents[d].user_id = tasks'[t].owner_key_id THEN 1 ELSE 0
          /\ \A i \in 1..Len(tasks'[t].doc_ids) :
               tasks'[t].doc_ids[i] \in DOMAIN documents]_vars

C16_Witness ==
  \E t \in Tasks, d1 \in DOMAIN documents, d2 \in DOMAIN documents :
    /\ tasks[t].op = "list" /\ tasks[t].pc = "done"
    /\ tasks[t].doc_ids = <<d2>>
    /\ documents[d2].user_id = tasks[t].owner_key_id
    /\ documents[d1].user_id # tasks[t].owner_key_id
    /\ Occurrences(SharedIds(d1), tasks[t].owner_key_id) > 0

C15_CodecRoundTrip ==
  /\ probe.stage = "decoded" => probe.back = probe.list
  /\ (probe.stage \in {"encoded", "decoded"} /\ probe.list = <<>>)
       => probe.text = <<>>

C15_Witness ==
  /\ probe.stage = "decoded"
  /\ Len(probe.list) = MaxListLen
  /\ probe.back = probe.list

=============================================================================
